---- MODULE Spec2Model ----
(***************************************************************************)
(* Model of the fast-paillier library: the Paillier key layer              *)
(* (EncryptionKey, DecryptionKey), the CRT exponentiator (CrtExp), the     *)
(* generation of safe primes and the helpers of utils.rs.  Apart from the  *)
(* loop of the generator the library is stateless once a key is            *)
(* built; the state of the model is the key plus the arguments and results *)
(* of the calls a client makes, as the integration tests keep them in      *)
(* local variables (x, nonce, enc_x1, enc_x2, enc_a, enc_b, ...).          *)
(***************************************************************************)
EXTENDS Integers, Sequences, FiniteSets, TLC

(***************************************************************************)
(* Bounds of the model.                                                    *)
(***************************************************************************)
\* from_primes is called with p, q in -Slack..MaxPrime
MaxPrime == 11
\* where two ciphertexts are combined, and for build_n / build_nn, p and q
\* are drawn from 0..MaxSmallPrime
MaxSmallPrime == 7
\* arguments are drawn this far outside their valid ranges
Slack == 2
\* EncryptionKey::from_n is called with N in -Slack..MaxN
MaxN == 12
\* homomorphic operations: nonces of the operands are drawn from 1..MaxNonce
MaxNonce == 6
\* scalars of omul are drawn from -MaxScalar..MaxScalar
MaxScalar == 8
\* exponents handed to prepare_exponent are drawn from -MaxExp..MaxExp
MaxExp == 21
\* safe primes are generated with bits in 0..MaxBits
MaxBits == 10
\* sieve_generate_safe_primes is called with amount in 0..MaxAmount, and
\* with one amount beyond the length of the table
MaxAmount == 4
\* where termination is examined, bits is in 0..MaxFairBits
MaxFairBits == 8

(***************************************************************************)
(* Results: Result<Integer, Error> and Option<Integer>.                    *)
(***************************************************************************)
Ok(v) == [ok |-> TRUE, val |-> v, err |-> "none"]
Err(reason) == [ok |-> FALSE, val |-> 0, err |-> reason]
Some(v) == Ok(v)
None == Err("None")
\* a call that has not been made
NotRun == Err("NotRun")
\* a call that panicked instead of returning
Panic == Err("panic")

(***************************************************************************)
(* rug::Integer arithmetic, as the library uses it.                        *)
(***************************************************************************)
Abs(x) == IF x < 0 THEN -x ELSE x

\* `%` of rug::Integer: truncated division, the remainder has the sign of
\* the dividend
Rem(x, m) ==
    IF x >= 0 THEN x % Abs(m) ELSE -((-x) % Abs(m))

\* Integer::modulo: Euclidean, the remainder is never negative
Modulo(x, m) == x % Abs(m)

RECURSIVE GcdNat(_, _)
GcdNat(x, y) == IF y = 0 THEN x ELSE GcdNat(y, x % y)

\* Integer::gcd: never negative, gcd(x, 0) = |x|
Gcd(x, y) == GcdNat(Abs(x), Abs(y))

\* Integer::lcm: never negative, 0 when an argument is 0
Lcm(x, y) ==
    IF x = 0 \/ y = 0 THEN 0 ELSE (Abs(x) \div Gcd(x, y)) * Abs(y)

\* extended Euclid on naturals: <<g, s>> with s * x == g (mod y)
RECURSIVE ExtGcd(_, _)
ExtGcd(x, y) ==
    IF y = 0 THEN <<x, 1, 0>>
    ELSE LET r == ExtGcd(y, x % y)
         IN  <<r[1], r[3], r[2] - (x \div y) * r[3]>>

\* Integer::invert: the inverse in [0, |m|) when m /= 0 and gcd(x, m) = 1
Invert(x, m) ==
    IF m = 0 \/ Gcd(x, m) # 1 THEN None
    ELSE LET am == Abs(m)
             r  == ExtGcd(x % am, am)
         IN  Some(r[2] % am)

\* base^e mod m for e >= 0 by square and multiply, result in [0, |m|)
RECURSIVE PowModNat(_, _, _)
PowModNat(base, e, m) ==
    IF e = 0 THEN 1 % m
    ELSE LET h == PowModNat(base, e \div 2, m)
             s == (h * h) % m
         IN  IF e % 2 = 1 THEN (s * (base % m)) % m ELSE s

\* Integer::pow_mod: a negative exponent inverts base^|e|; None when the
\* inverse does not exist
PowMod(base, e, m) ==
    IF e >= 0 THEN Some(PowModNat(base, e, Abs(m)))
    ELSE Invert(PowModNat(base, -e, Abs(m)), m)

(***************************************************************************)
(* utils.rs                                                                *)
(***************************************************************************)
\* in_mult_group_abs
in_mult_group_abs(x, n) == Gcd(x, n) = 1

\* in_mult_group
in_mult_group(x, n) == x >= 0 /\ in_mult_group_abs(x, n)

NoCrt == [n |-> 0, n1 |-> 0, phi_n1 |-> 0, n2 |-> 0, phi_n2 |-> 0, beta |-> 0]
NoExponent == [e_mod_phi_pp |-> 0, e_mod_phi_qq |-> 0, is_negative |-> FALSE]

\* CrtExp::build: [ok, crt]
build(n1, phi_n1, n2, phi_n2) ==
    IF n1 <= 0 \/ n2 <= 0 \/ phi_n1 <= 0 \/ phi_n2 <= 0
       \/ phi_n1 >= n1 \/ phi_n2 >= n2
    THEN [ok |-> FALSE, crt |-> NoCrt]
    ELSE LET beta == Invert(n1, n2)
         IN  IF ~beta.ok THEN [ok |-> FALSE, crt |-> NoCrt]
             ELSE [ok |-> TRUE,
                   crt |-> [n |-> n1 * n2, n1 |-> n1, phi_n1 |-> phi_n1,
                            n2 |-> n2, phi_n2 |-> phi_n2, beta |-> beta.val]]

\* CrtExp::build_n
build_n(p, q) == build(p, p - 1, q, q - 1)

\* CrtExp::build_nn
build_nn(p, q) == build(p * p, p * p - p, q * q, q * q - q)

\* prepare_exponent reducing both halves of the exponent modulo phi(n1)
prepare_exponent_same_phi(crt, e) ==
    LET neg_e == -e
        is_negative == e < 0
        ee == IF is_negative THEN neg_e ELSE e
    IN  [e_mod_phi_pp |-> Modulo(ee, crt.phi_n1),
         e_mod_phi_qq |-> Modulo(ee, crt.phi_n1),
         is_negative |-> is_negative]

\* CrtExp::prepare_exponent
prepare_exponent(crt, e) ==
    LET neg_e == -e
        is_negative == e < 0
        ee == IF is_negative THEN neg_e ELSE e
    IN  [e_mod_phi_pp |-> Modulo(ee, crt.phi_n1),
         e_mod_phi_qq |-> Modulo(ee, crt.phi_n2),
         is_negative |-> is_negative]

\* exp with the CRT combine step reduced by the truncating `%`, which keeps
\* the sign of r2 - r1
exp_signed_rem(crt, x, e) ==
    LET s1 == Modulo(x, crt.n1)
        s2 == Modulo(x, crt.n2)
        r1 == PowMod(s1, e.e_mod_phi_pp, crt.n1).val
        r2 == PowMod(s2, e.e_mod_phi_qq, crt.n2).val
        result == Rem((r2 - r1) * crt.beta, crt.n2) * crt.n1 + r1
    IN  IF e.is_negative THEN Invert(result, crt.n) ELSE Some(result)

\* CrtExp::exp
exp(crt, x, e) ==
    LET s1 == Modulo(x, crt.n1)
        s2 == Modulo(x, crt.n2)
        r1 == PowMod(s1, e.e_mod_phi_pp, crt.n1).val
        r2 == PowMod(s2, e.e_mod_phi_qq, crt.n2).val
        result == Modulo((r2 - r1) * crt.beta, crt.n2) * crt.n1 + r1
    IN  IF e.is_negative THEN Invert(result, crt.n) ELSE Some(result)

(***************************************************************************)
(* encryption_key.rs                                                       *)
(***************************************************************************)
\* EncryptionKey::from_n
from_n(n) ==
    [n |-> n, nn |-> n * n, half_n |-> n \div 2, neg_half_n |-> -(n \div 2)]

\* EncryptionKey::in_signed_group
in_signed_group(ek, x) == ek.neg_half_n <= x /\ x <= ek.half_n

\* EncryptionKey::l comparing x with 1 modulo N^2, so that L is defined on 1
\* alone
l_mod_nn(ek, x) ==
    IF Rem(x, ek.nn) # 1 THEN None
    ELSE IF ~in_mult_group(x, ek.nn) THEN None
    ELSE Some((x - 1) \div ek.n)

\* EncryptionKey::l
l(ek, x) ==
    IF Rem(x, ek.n) # 1 THEN None
    ELSE IF ~in_mult_group(x, ek.nn) THEN None
    ELSE Some((x - 1) \div ek.n)

\* EncryptionKey::encrypt_with
ek_encrypt_with(ek, x, nonce) ==
    IF ~in_signed_group(ek, x) \/ ~in_mult_group(nonce, ek.n)
    THEN Err("Encrypt")
    \* `% self.nn()` panics on a zero divisor
    ELSE IF ek.nn = 0 THEN Panic
    ELSE LET xx == IF x >= 0 THEN x ELSE x + ek.n
             a  == Rem(1 + xx * ek.n, ek.nn)
             b  == PowMod(nonce, ek.n, ek.nn)
         IN  IF ~b.ok THEN Err("Bug")
             ELSE Ok(Modulo(a * b.val, ek.nn))

\* oneg inverting modulo N instead of N^2
oneg_mod_n(ek, ciphertext) ==
    LET inv == Invert(ciphertext, ek.n)
    IN  IF inv.ok THEN Ok(inv.val) ELSE Err("Ops")

\* EncryptionKey::oneg
oneg(ek, ciphertext) ==
    LET inv == Invert(ciphertext, ek.nn)
    IN  IF inv.ok THEN Ok(inv.val) ELSE Err("Ops")

\* oadd adding the ciphertexts instead of multiplying them
oadd_sum(ek, c1, c2) ==
    IF ~in_mult_group(c1, ek.nn) \/ ~in_mult_group(c2, ek.nn)
    THEN Err("Ops")
    ELSE Ok(Rem(c1 + c2, ek.nn))

\* EncryptionKey::oadd
oadd(ek, c1, c2) ==
    IF ~in_mult_group(c1, ek.nn) \/ ~in_mult_group(c2, ek.nn)
    THEN Err("Ops")
    ELSE Ok(Rem(c1 * c2, ek.nn))

\* osub multiplying by c2 itself instead of its inverse
osub_no_neg(ek, c1, c2) ==
    IF ~in_mult_group(c1, ek.nn) THEN Err("Ops")
    ELSE LET neg == oneg(ek, c2)
         IN  IF ~neg.ok THEN neg
             ELSE Ok(Rem(c1 * c2, ek.nn))

\* EncryptionKey::osub
osub(ek, c1, c2) ==
    IF ~in_mult_group(c1, ek.nn) THEN Err("Ops")
    ELSE LET neg == oneg(ek, c2)
         IN  IF ~neg.ok THEN neg
             ELSE Ok(Rem(c1 * neg.val, ek.nn))

\* omul dropping the sign of the scalar
ek_omul_abs(ek, scalar, ciphertext) ==
    IF ~in_mult_group_abs(scalar, ek.n) \/ ~in_mult_group(ciphertext, ek.nn)
    THEN Err("Ops")
    ELSE LET r == PowMod(ciphertext, Abs(scalar), ek.nn)
         IN  IF r.ok THEN Ok(r.val) ELSE Err("Ops")

\* EncryptionKey::omul
ek_omul(ek, scalar, ciphertext) ==
    IF ~in_mult_group_abs(scalar, ek.n) \/ ~in_mult_group(ciphertext, ek.nn)
    THEN Err("Ops")
    ELSE LET r == PowMod(ciphertext, scalar, ek.nn)
         IN  IF r.ok THEN Ok(r.val) ELSE Err("Ops")

(***************************************************************************)
(* decryption_key.rs                                                       *)
(***************************************************************************)
NoKey ==
    [ek |-> from_n(0), lambda |-> 0, mu |-> 0, p |-> 0, q |-> 0,
     crt_mod_nn |-> NoCrt, exp_n |-> NoExponent, exp_lambda |-> NoExponent]

\* from_primes without the test of p = q
from_primes_no_eq(p, q) ==
    IF FALSE THEN [res |-> "InvalidPQ", key |-> NoKey]
    ELSE LET pm1 == p - 1
             qm1 == q - 1
             ek == from_n(p * q)
             lambda == Lcm(pm1, qm1)
         IN  IF lambda = 0 THEN [res |-> "InvalidPQ", key |-> NoKey]
             ELSE LET u == Invert(lambda, ek.n)
                  IN  IF ~u.ok THEN [res |-> "InvalidPQ", key |-> NoKey]
                      ELSE LET b == build_nn(p, q)
                           IN  IF ~b.ok
                               THEN [res |-> "BuildFastExp", key |-> NoKey]
                               ELSE [res |-> "Ok",
                                     key |-> [ek |-> ek, lambda |-> lambda,
                                              mu |-> u.val, p |-> p, q |-> q,
                                              crt_mod_nn |-> b.crt,
                                              exp_n |-> prepare_exponent(b.crt, ek.n),
                                              exp_lambda |-> prepare_exponent(b.crt, lambda)]]

\* from_primes with lambda = (p - 1)(q - 1) instead of their lcm
from_primes_phi(p, q) ==
    IF p = q THEN [res |-> "InvalidPQ", key |-> NoKey]
    ELSE LET pm1 == p - 1
             qm1 == q - 1
             ek == from_n(p * q)
             lambda == pm1 * qm1
         IN  IF lambda = 0 THEN [res |-> "InvalidPQ", key |-> NoKey]
             ELSE LET u == Invert(lambda, ek.n)
                  IN  IF ~u.ok THEN [res |-> "InvalidPQ", key |-> NoKey]
                      ELSE LET b == build_nn(p, q)
                           IN  IF ~b.ok
                               THEN [res |-> "BuildFastExp", key |-> NoKey]
                               ELSE [res |-> "Ok",
                                     key |-> [ek |-> ek, lambda |-> lambda,
                                              mu |-> u.val, p |-> p, q |-> q,
                                              crt_mod_nn |-> b.crt,
                                              exp_n |-> prepare_exponent(b.crt, ek.n),
                                              exp_lambda |-> prepare_exponent(b.crt, lambda)]]

\* DecryptionKey::from_primes: [res, key], res = "Ok" or the error
from_primes(p, q) ==
    IF p = q THEN [res |-> "InvalidPQ", key |-> NoKey]
    ELSE LET pm1 == p - 1
             qm1 == q - 1
             ek == from_n(p * q)
             lambda == Lcm(pm1, qm1)
         IN  IF lambda = 0 THEN [res |-> "InvalidPQ", key |-> NoKey]
             ELSE LET u == Invert(lambda, ek.n)
                  IN  IF ~u.ok THEN [res |-> "InvalidPQ", key |-> NoKey]
                      ELSE LET b == build_nn(p, q)
                           IN  IF ~b.ok
                               THEN [res |-> "BuildFastExp", key |-> NoKey]
                               ELSE [res |-> "Ok",
                                     key |-> [ek |-> ek, lambda |-> lambda,
                                              mu |-> u.val, p |-> p, q |-> q,
                                              crt_mod_nn |-> b.crt,
                                              exp_n |-> prepare_exponent(b.crt, ek.n),
                                              exp_lambda |-> prepare_exponent(b.crt, lambda)]]

\* decrypt without the mapping of m' >= N/2 to the negative half
decrypt_unsigned(key, c) ==
    IF ~in_mult_group(c, key.ek.nn) THEN Err("Decrypt")
    ELSE LET a == exp(key.crt_mod_nn, c, key.exp_lambda)
         IN  IF ~a.ok THEN Err("Decrypt")
             ELSE LET ell == l(key.ek, a.val)
                  IN  IF ~ell.ok THEN Err("Decrypt")
                      ELSE Ok(Rem(ell.val * key.mu, key.ek.n))

\* decrypt mapping m' to the negative half from floor(N/2) on
decrypt_wrap_at_half(key, c) ==
    IF ~in_mult_group(c, key.ek.nn) THEN Err("Decrypt")
    ELSE LET a == exp(key.crt_mod_nn, c, key.exp_lambda)
         IN  IF ~a.ok THEN Err("Decrypt")
             ELSE LET ell == l(key.ek, a.val)
                  IN  IF ~ell.ok THEN Err("Decrypt")
                      ELSE LET plaintext == Rem(ell.val * key.mu, key.ek.n)
                           IN  IF plaintext >= key.ek.half_n
                               THEN Ok(plaintext - key.ek.n)
                               ELSE Ok(plaintext)

\* DecryptionKey::decrypt
decrypt(key, c) ==
    IF ~in_mult_group(c, key.ek.nn) THEN Err("Decrypt")
    ELSE LET a == exp(key.crt_mod_nn, c, key.exp_lambda)
         IN  IF ~a.ok THEN Err("Decrypt")
             ELSE LET ell == l(key.ek, a.val)
                  IN  IF ~ell.ok THEN Err("Decrypt")
                      ELSE LET plaintext == Rem(ell.val * key.mu, key.ek.n)
                           IN  IF 2 * plaintext >= key.ek.n
                               THEN Ok(plaintext - key.ek.n)
                               ELSE Ok(plaintext)

\* DecryptionKey::encrypt_with
dk_encrypt_with(key, x, nonce) ==
    IF ~in_signed_group(key.ek, x) \/ ~in_mult_group(nonce, key.ek.n)
    THEN Err("Encrypt")
    ELSE LET xx == IF x >= 0 THEN x ELSE x + key.ek.n
             a  == Rem(1 + xx * key.ek.n, key.ek.nn)
             b  == exp(key.crt_mod_nn, nonce, key.exp_n)
         IN  IF ~b.ok THEN Err("Encrypt")
             ELSE Ok(Rem(a * b.val, key.ek.nn))

\* DecryptionKey::omul with the scalar held to in_mult_group instead of
\* in_mult_group_abs
dk_omul_unsigned(key, scalar, ciphertext) ==
    IF ~in_mult_group(scalar, key.ek.n)
       \/ ~in_mult_group(ciphertext, key.ek.nn)
    THEN Err("Ops")
    ELSE LET e == prepare_exponent(key.crt_mod_nn, scalar)
             r == exp(key.crt_mod_nn, ciphertext, e)
         IN  IF r.ok THEN Ok(r.val) ELSE Err("Ops")

\* DecryptionKey::omul preparing the exponent from |scalar|, so that the
\* result of a negative scalar is not inverted
dk_omul_abs(key, scalar, ciphertext) ==
    IF ~in_mult_group_abs(scalar, key.ek.n)
       \/ ~in_mult_group(ciphertext, key.ek.nn)
    THEN Err("Ops")
    ELSE LET e == prepare_exponent(key.crt_mod_nn, Abs(scalar))
             r == exp(key.crt_mod_nn, ciphertext, e)
         IN  IF r.ok THEN Ok(r.val) ELSE Err("Ops")

\* DecryptionKey::omul
dk_omul(key, scalar, ciphertext) ==
    IF ~in_mult_group_abs(scalar, key.ek.n)
       \/ ~in_mult_group(ciphertext, key.ek.nn)
    THEN Err("Ops")
    ELSE LET e == prepare_exponent(key.crt_mod_nn, scalar)
             r == exp(key.crt_mod_nn, ciphertext, e)
         IN  IF r.ok THEN Ok(r.val) ELSE Err("Ops")

(***************************************************************************)
(* tests/integration.rs                                                    *)
(***************************************************************************)
\* unsigned_mod_to_signed
unsigned_mod_to_signed(x, n) == IF 2 * x >= n THEN x - n ELSE x

\* signed_modulo
signed_modulo(x, n) == unsigned_mod_to_signed(Modulo(x, n), n)

\* sample_in_mult_group: the values the rejection loop can return
sample_in_mult_group(n) == {r \in 0..(n - 1) : in_mult_group(r, n)}

(***************************************************************************)
(* utils.rs: generation of safe primes.                                    *)
(***************************************************************************)
\* Integer::is_probably_prime(25): exact on the integers of the model
is_probably_prime(n) == n >= 2 /\ \A d \in 2..(n - 1) : n % d # 0

\* small_primes::SMALL_PRIMES: the first 150 odd primes, in ascending order
SMALL_PRIMES == <<
    3, 5, 7, 11, 13, 17, 19, 23, 29, 31, 37, 41,
    43, 47, 53, 59, 61, 67, 71, 73, 79, 83, 89, 97,
    101, 103, 107, 109, 113, 127, 131, 137, 139, 149, 151, 157,
    163, 167, 173, 179, 181, 191, 193, 197, 199, 211, 223, 227,
    229, 233, 239, 241, 251, 257, 263, 269, 271, 277, 281, 283,
    293, 307, 311, 313, 317, 331, 337, 347, 349, 353, 359, 367,
    373, 379, 383, 389, 397, 401, 409, 419, 421, 431, 433, 439,
    443, 449, 457, 461, 463, 467, 479, 487, 491, 499, 503, 509,
    521, 523, 541, 547, 557, 563, 569, 571, 577, 587, 593, 599,
    601, 607, 613, 617, 619, 631, 641, 643, 647, 653, 659, 661,
    673, 677, 683, 691, 701, 709, 719, 727, 733, 739, 743, 751,
    757, 761, 769, 773, 787, 797, 809, 811, 821, 823, 827, 829,
    839, 853, 857, 859, 863, 877>>

\* the sieve size generate_safe_prime passes on
DefaultAmount == 135

\* Integer::set_bit(k, true)
set_bit(x, k) == IF (x \div (2 ^ k)) % 2 = 1 THEN x ELSE x + 2 ^ k

\* the candidate without set_bit(bits - 2, true)
candidate_no_top_bit(r, nbits) ==
    LET y == r
    IN  IF y % 2 = 1 THEN y ELSE y + 1

\* the candidate x of a trial, from the bits - 1 random bits r:
\* x.set_bit(bits - 2, true); x |= 1
candidate(r, nbits) ==
    LET y == set_bit(r, nbits - 2)
    IN  IF y % 2 = 1 THEN y ELSE y + 1

\* the sieve: x mod s = (s - 1)/2 for one of the first amt small primes s
sieve_rejects(x, amt) ==
    \E i \in 1..amt :
        x % SMALL_PRIMES[i] = (SMALL_PRIMES[i] - 1) \div 2

\* how the trial of candidate x ends
trial(x, amt) ==
    IF sieve_rejects(x, amt) THEN "sieve"
    ELSE IF ~is_probably_prime(x) THEN "composite"
    ELSE IF ~is_probably_prime(2 * x + 1) THEN "q_composite"
    ELSE "returned"

(***************************************************************************)
(* State.                                                                  *)
(***************************************************************************)
VARIABLES
    built,      \* "none", "Ok" (from_primes succeeded), "EkOnly" (from_n),
                \* or the error of the last from_primes
    ek,         \* the EncryptionKey
    dk,         \* the DecryptionKey (NoKey unless built = "Ok")
    arg_p,      \* the arguments of the last from_primes
    arg_q,
    x,          \* plaintext of the last encrypt_with
    nonce,      \* its nonce
    enc_x1,     \* result of EncryptionKey::encrypt_with(x, nonce)
    enc_x2,     \* result of DecryptionKey::encrypt_with(x, nonce)
    held,       \* the ciphertext the caller kept from the results so far
    b,          \* plaintext of the second operand
    nonce_b,    \* its nonce
    enc_b,      \* result of EncryptionKey::encrypt_with(b, nonce_b)
    op,         \* the homomorphic operation applied last, or "none"
    scalar,     \* the scalar of omul
    out,        \* result of the homomorphic operation
    out2,       \* result of DecryptionKey::omul on the arguments of omul
    c1,         \* its ciphertext operands
    c2,
    c,          \* argument of the last decrypt
    decrypted,  \* result of the last decrypt
    crt_pc,     \* CrtExp client: "none", "failed", "built", "prepared", "done"
    crt,        \* the CrtExp
    e,          \* the exponent handed to prepare_exponent
    crt_e,      \* the prepared Exponent
    crt_x,      \* the base handed to exp
    actual,     \* result of CrtExp::exp(crt_x, crt_e)
    gen_pc,     \* sieve_generate_safe_primes: "idle", "loop" (at 'trial),
                \* "returned", "panic" or "diverged"
    bits,       \* its argument bits
    amount,     \* its sieve size, after amount.min(SMALL_PRIMES.len())
    gx,         \* the candidate x of the last trial
    last,       \* how the last trial ended
    trials,     \* the number of trials made, modulo 2
    gen_ret     \* the value returned

keyVars == <<built, ek, dk, arg_p, arg_q>>
encVars == <<x, nonce, enc_x1, enc_x2, held>>
bVars == <<b, nonce_b, enc_b>>
opVars == <<op, scalar, out, out2, c1, c2>>
decVars == <<c, decrypted>>
pailVars == <<built, ek, dk, arg_p, arg_q, x, nonce, enc_x1, enc_x2, held,
              b, nonce_b, enc_b, op, scalar, out, out2, c1, c2, c, decrypted>>
crtVars == <<crt_pc, crt, e, crt_e, crt_x, actual>>
genVars == <<gen_pc, bits, amount, gx, last, trials, gen_ret>>
vars == <<built, ek, dk, arg_p, arg_q, x, nonce, enc_x1, enc_x2, held,
          b, nonce_b, enc_b, op, scalar, out, out2, c1, c2, c, decrypted,
          crt_pc, crt, e, crt_e, crt_x, actual,
          gen_pc, bits, amount, gx, last, trials, gen_ret>>

NoEnc ==
    /\ x' = 0 /\ nonce' = 0 /\ enc_x1' = NotRun /\ enc_x2' = NotRun
    /\ held' = NotRun
NoB == b' = 0 /\ nonce_b' = 0 /\ enc_b' = NotRun
NoOp ==
    /\ op' = "none" /\ scalar' = 0 /\ out' = NotRun /\ out2' = NotRun
    /\ c1' = 0 /\ c2' = 0
NoDec == c' = 0 /\ decrypted' = NotRun

Init ==
    /\ built = "none" /\ ek = from_n(0) /\ dk = NoKey
    /\ arg_p = 0 /\ arg_q = 0
    /\ x = 0 /\ nonce = 0 /\ enc_x1 = NotRun /\ enc_x2 = NotRun
    /\ held = NotRun
    /\ b = 0 /\ nonce_b = 0 /\ enc_b = NotRun
    /\ op = "none" /\ scalar = 0 /\ out = NotRun /\ out2 = NotRun
    /\ c1 = 0 /\ c2 = 0
    /\ c = 0 /\ decrypted = NotRun
    /\ crt_pc = "none" /\ crt = NoCrt /\ e = 0 /\ crt_e = NoExponent
    /\ crt_x = 0 /\ actual = NotRun
    /\ gen_pc = "idle" /\ bits = 0 /\ amount = 0 /\ gx = 0
    /\ last = "none" /\ trials = 0 /\ gen_ret = 0

(***************************************************************************)
(* Inputs.                                                                 *)
(***************************************************************************)
PrimeInputs == (-Slack)..MaxPrime
SmallPrimeInputs == 0..MaxSmallPrime
ModulusInputs == (-Slack)..MaxN
PlaintextInputs == (ek.neg_half_n - Slack)..(ek.half_n + Slack)
NonceInputs == (-Slack)..(ek.n + Slack)
CiphertextInputs == (-Slack)..(ek.nn + Slack)
\* operands at the edges of [1, N^2), and the factors of N^2
EdgeOperands ==
    ((-Slack)..Slack) \cup ((ek.nn - Slack)..(ek.nn + Slack))
        \cup {dk.p, dk.q, ek.n}
SignedRange == ek.neg_half_n..ek.half_n
BitsInputs == 0..MaxBits
AmountInputs == (0..MaxAmount) \cup {Len(SMALL_PRIMES) + 1}
\* Integer::random_bits(bits - 1)
RandomBits == 0..(2 ^ (bits - 1) - 1)
SmallNonces == 1..MaxNonce
Scalars == (-MaxScalar)..MaxScalar
Exponents == (-MaxExp)..MaxExp

(***************************************************************************)
(* Actions: one per public operation.  The operations are pure functions   *)
(* of the key and their arguments, so a behaviour is one run of a client   *)
(* as the integration tests are written: a key is built, values are        *)
(* encrypted, operated on and decrypted, each result kept for the next     *)
(* call.                                                                   *)
(***************************************************************************)
\* DecryptionKey::from_primes(p, q)
FromPrimes(p, q) ==
    LET r == from_primes(p, q)
    IN  /\ built = "none"
        /\ built' = r.res
        /\ dk' = r.key
        /\ ek' = r.key.ek
        /\ arg_p' = p /\ arg_q' = q
        /\ NoEnc /\ NoB /\ NoOp /\ NoDec
        /\ UNCHANGED <<crtVars, genVars>>

\* EncryptionKey::from_n(n): a public key alone
FromN(n) ==
    /\ built = "none"
    /\ built' = "EkOnly"
    /\ ek' = from_n(n)
    /\ dk' = NoKey
    /\ UNCHANGED <<arg_p, arg_q>>
    /\ NoEnc /\ NoB /\ NoOp /\ NoDec
    /\ UNCHANGED <<crtVars, genVars>>

\* EncryptionKey::encrypt_with(xx, rr), with xx in X and rr in R, or with
\* the arguments DecryptionKey::encrypt_with was just called with
EkEncryptWith(X, R) ==
    /\ built \in {"Ok", "EkOnly"}
    /\ enc_x1 = NotRun /\ decrypted = NotRun
    /\ \E xx \in IF enc_x2 = NotRun THEN X ELSE {x},
          rr \in IF enc_x2 = NotRun THEN R ELSE {nonce} :
          /\ x' = xx /\ nonce' = rr
          /\ enc_x1' = ek_encrypt_with(ek, xx, rr)
    /\ UNCHANGED enc_x2
    /\ NoB /\ NoOp /\ NoDec
    /\ UNCHANGED <<keyVars, held, crtVars, genVars>>

\* DecryptionKey::encrypt_with(xx, rr), with xx in X and rr in R, or with
\* the arguments EncryptionKey::encrypt_with was just called with
DkEncryptWith(X, R) ==
    /\ built = "Ok"
    /\ enc_x2 = NotRun /\ decrypted = NotRun
    /\ \E xx \in IF enc_x1 = NotRun THEN X ELSE {x},
          rr \in IF enc_x1 = NotRun THEN R ELSE {nonce} :
          /\ x' = xx /\ nonce' = rr
          /\ enc_x2' = dk_encrypt_with(dk, xx, rr)
    /\ UNCHANGED enc_x1
    /\ NoB /\ NoOp /\ NoDec
    /\ UNCHANGED <<keyVars, held, crtVars, genVars>>

\* EncryptionKey::encrypt_with_random(rng, xx), with xx in X: the nonce is
\* sampled
EkEncryptWithRandom(X) ==
    /\ built \in {"Ok", "EkOnly"}
    /\ enc_x1 = NotRun /\ enc_x2 = NotRun /\ decrypted = NotRun
    /\ IF ek.n <= 0
       THEN \* sample_in_mult_group: random_below panics on a bound <= 0
            \E xx \in X :
               /\ x' = xx /\ nonce' = 0
               /\ enc_x1' = Panic
       ELSE \E xx \in X, rr \in sample_in_mult_group(ek.n) :
               /\ x' = xx /\ nonce' = rr
               /\ enc_x1' = ek_encrypt_with(ek, xx, rr)
    /\ enc_x2' = NotRun
    /\ NoB /\ NoOp /\ NoDec
    /\ UNCHANGED <<keyVars, held, crtVars, genVars>>

\* DecryptionKey::encrypt_with_random(rng, xx), with xx in X
DkEncryptWithRandom(X) ==
    /\ built = "Ok"
    /\ enc_x1 = NotRun /\ enc_x2 = NotRun /\ decrypted = NotRun
    /\ \E xx \in X, rr \in sample_in_mult_group(dk.ek.n) :
          /\ x' = xx /\ nonce' = rr
          /\ enc_x2' = dk_encrypt_with(dk, xx, rr)
    /\ enc_x1' = NotRun
    /\ NoB /\ NoOp /\ NoDec
    /\ UNCHANGED <<keyVars, held, crtVars, genVars>>

\* DecryptionKey::decrypt of the ciphertext just produced
DecryptCiphertext ==
    /\ built = "Ok"
    /\ op = "none" /\ decrypted = NotRun
    /\ \E r \in {enc_x1, enc_x2} :
          /\ r.ok
          /\ c' = r.val
          /\ decrypted' = decrypt(dk, r.val)
    /\ UNCHANGED <<keyVars, encVars, bVars, opVars, crtVars, genVars>>

\* DecryptionKey::decrypt of an arbitrary integer of C
DecryptAny(C) ==
    /\ built = "Ok"
    /\ enc_x1 = NotRun /\ enc_x2 = NotRun /\ decrypted = NotRun
    /\ held = NotRun /\ op = "none"
    /\ \E cc \in C :
          /\ c' = cc
          /\ decrypted' = decrypt(dk, cc)
    /\ UNCHANGED <<keyVars, encVars, bVars, opVars, crtVars, genVars>>

\* EncryptionKey::encrypt_with(xx, rr) for the second operand, with xx in X
\* and rr in R
EncryptB(X, R) ==
    /\ built = "Ok"
    /\ enc_x1.ok /\ enc_b = NotRun /\ op = "none"
    /\ \E xx \in X, rr \in R :
          /\ b' = xx /\ nonce_b' = rr
          /\ enc_b' = ek_encrypt_with(ek, xx, rr)
    /\ UNCHANGED <<keyVars, encVars, opVars, decVars, crtVars, genVars>>

\* EncryptionKey::oadd(enc_x1, enc_b)
Oadd ==
    /\ built = "Ok"
    /\ enc_x1.ok /\ enc_b.ok /\ op = "none"
    /\ op' = "oadd"
    /\ c1' = enc_x1.val /\ c2' = enc_b.val
    /\ out' = oadd(ek, enc_x1.val, enc_b.val)
    /\ UNCHANGED <<keyVars, encVars, bVars, scalar, out2, decVars, crtVars, genVars>>

\* EncryptionKey::osub(enc_x1, enc_b)
Osub ==
    /\ built = "Ok"
    /\ enc_x1.ok /\ enc_b.ok /\ op = "none"
    /\ op' = "osub"
    /\ c1' = enc_x1.val /\ c2' = enc_b.val
    /\ out' = osub(ek, enc_x1.val, enc_b.val)
    /\ UNCHANGED <<keyVars, encVars, bVars, scalar, out2, decVars, crtVars, genVars>>

\* EncryptionKey::oneg(enc_x1)
Oneg ==
    /\ built = "Ok"
    /\ enc_x1.ok /\ enc_b = NotRun /\ op = "none"
    /\ op' = "oneg"
    /\ c1' = enc_x1.val /\ c2' = 0
    /\ out' = oneg(ek, enc_x1.val)
    /\ UNCHANGED <<keyVars, encVars, bVars, scalar, out2, decVars, crtVars, genVars>>

\* EncryptionKey::omul(s, enc_x1)
Omul(s) ==
    /\ built = "Ok"
    /\ enc_x1.ok /\ enc_b = NotRun /\ op = "none"
    /\ op' = "omul"
    /\ scalar' = s
    /\ c1' = enc_x1.val /\ c2' = 0
    /\ out' = ek_omul(ek, s, enc_x1.val)
    /\ UNCHANGED <<keyVars, encVars, bVars, out2, decVars, crtVars, genVars>>

\* DecryptionKey::omul(s, enc_x1)
DkOmul(s) ==
    /\ built = "Ok"
    /\ enc_x1.ok /\ enc_b = NotRun /\ op = "none"
    /\ op' = "dk_omul"
    /\ scalar' = s
    /\ c1' = enc_x1.val /\ c2' = 0
    /\ out' = dk_omul(dk, s, enc_x1.val)
    /\ UNCHANGED <<keyVars, encVars, bVars, out2, decVars, crtVars, genVars>>

\* EncryptionKey::oadd(a, b) on any two integers, a in A and b in B
OaddAny(A, B) ==
    /\ built = "Ok"
    /\ enc_x1 = NotRun /\ op = "none"
    /\ op' = "oadd"
    /\ \E a \in A, bb \in B :
          /\ c1' = a /\ c2' = bb
          /\ out' = oadd(ek, a, bb)
    /\ UNCHANGED <<keyVars, encVars, bVars, scalar, out2, decVars, crtVars, genVars>>

\* EncryptionKey::osub(a, b) on any two integers, a in A and b in B
OsubAny(A, B) ==
    /\ built = "Ok"
    /\ enc_x1 = NotRun /\ op = "none"
    /\ op' = "osub"
    /\ \E a \in A, bb \in B :
          /\ c1' = a /\ c2' = bb
          /\ out' = osub(ek, a, bb)
    /\ UNCHANGED <<keyVars, encVars, bVars, scalar, out2, decVars, crtVars, genVars>>

\* EncryptionKey::oneg(a) on any integer a in A
OnegAny(A) ==
    /\ built = "Ok"
    /\ enc_x1 = NotRun /\ op = "none"
    /\ op' = "oneg"
    /\ \E a \in A :
          /\ c1' = a /\ c2' = 0
          /\ out' = oneg(ek, a)
    /\ UNCHANGED <<keyVars, encVars, bVars, scalar, out2, decVars, crtVars, genVars>>

\* EncryptionKey::omul(s, a) on any scalar s in S and any integer a in A
OmulAny(S, A) ==
    /\ built = "Ok"
    /\ enc_x1 = NotRun /\ op = "none"
    /\ op' = "omul"
    /\ \E s \in S, a \in A :
          /\ scalar' = s
          /\ c1' = a /\ c2' = 0
          /\ out' = ek_omul(ek, s, a)
    /\ UNCHANGED <<keyVars, encVars, bVars, out2, decVars, crtVars, genVars>>

\* DecryptionKey::omul(s, a) on any scalar s in S and any integer a in A
DkOmulAny(S, A) ==
    /\ built = "Ok"
    /\ enc_x1 = NotRun /\ op = "none"
    /\ op' = "dk_omul"
    /\ \E s \in S, a \in A :
          /\ scalar' = s
          /\ c1' = a /\ c2' = 0
          /\ out' = dk_omul(dk, s, a)
    /\ UNCHANGED <<keyVars, encVars, bVars, out2, decVars, crtVars, genVars>>

\* DecryptionKey::omul on the scalar and the ciphertext EncryptionKey::omul
\* was just called with
DkOmulSame ==
    /\ built = "Ok"
    /\ op = "omul" /\ out # NotRun /\ out2 = NotRun
    /\ out2' = dk_omul(dk, scalar, c1)
    /\ UNCHANGED <<op, scalar, out, c1, c2>>
    /\ UNCHANGED <<keyVars, encVars, bVars, decVars, crtVars, genVars>>

\* DecryptionKey::decrypt of the result of the homomorphic operation
DecryptOut ==
    /\ built = "Ok"
    /\ out.ok /\ decrypted = NotRun
    /\ c' = out.val
    /\ decrypted' = decrypt(dk, out.val)
    /\ UNCHANGED <<keyVars, encVars, bVars, opVars, crtVars, genVars>>

\* CrtExp::build_n(p, q)
BuildN(p, q) ==
    LET r == build_n(p, q)
    IN  /\ crt_pc = "none"
        /\ crt_pc' = IF r.ok THEN "built" ELSE "failed"
        /\ crt' = r.crt
        /\ UNCHANGED <<pailVars, genVars, e, crt_e, crt_x, actual>>

\* CrtExp::build_nn(p, q)
BuildNN(p, q) ==
    LET r == build_nn(p, q)
    IN  /\ crt_pc = "none"
        /\ crt_pc' = IF r.ok THEN "built" ELSE "failed"
        /\ crt' = r.crt
        /\ UNCHANGED <<pailVars, genVars, e, crt_e, crt_x, actual>>

\* CrtExp::prepare_exponent(ee)
PrepareExponent(ee) ==
    /\ crt_pc = "built"
    /\ crt_pc' = "prepared"
    /\ e' = ee
    /\ crt_e' = prepare_exponent(crt, ee)
    /\ UNCHANGED <<pailVars, genVars, crt, crt_x, actual>>

\* CrtExp::exp(xx, crt_e)
Exp(xx) ==
    /\ crt_pc = "prepared"
    /\ crt_pc' = "done"
    /\ crt_x' = xx
    /\ actual' = exp(crt, xx, crt_e)
    /\ UNCHANGED <<pailVars, genVars, crt, e, crt_e>>

\* sieve_generate_safe_primes(rng, nbits, amt), up to the loop
SieveGenerateSafePrimes(nbits, amt) ==
    /\ gen_pc = "idle"
    /\ gen_pc' = "loop"
    /\ bits' = nbits
    /\ amount' = IF amt < Len(SMALL_PRIMES) THEN amt ELSE Len(SMALL_PRIMES)
    /\ UNCHANGED <<gx, last, trials, gen_ret>>
    /\ UNCHANGED <<pailVars, crtVars>>

\* generate_safe_prime(rng, nbits)
GenerateSafePrime(nbits) == SieveGenerateSafePrimes(nbits, DefaultAmount)

\* one iteration of 'trial, with the outcome of random_bits in R
Trial(R) ==
    /\ gen_pc = "loop"
    /\ bits >= 2
    /\ \E xx \in {candidate(r, bits) : r \in R} :
          LET t == trial(xx, amount)
          IN  /\ gx' = xx
              /\ last' = t
              /\ trials' = 1 - trials
              /\ gen_pc' = IF t = "returned" THEN "returned" ELSE "loop"
              /\ gen_ret' = IF t = "returned" THEN 2 * xx + 1 ELSE gen_ret
    /\ UNCHANGED <<bits, amount>>
    /\ UNCHANGED <<pailVars, crtVars>>

\* the first iteration with bits < 2: bits - 1 or bits - 2 underflows u32.
\* With overflow checks the subtraction panics; without them it wraps to
\* a length of about 2^32 bits and the loop does not return.
TrialUnderflow ==
    /\ gen_pc = "loop"
    /\ bits < 2
    /\ gen_pc' \in {"panic", "diverged"}
    /\ UNCHANGED <<bits, amount, gx, last, trials, gen_ret>>
    /\ UNCHANGED <<pailVars, crtVars>>

Next ==
    \/ \E p, q \in PrimeInputs : FromPrimes(p, q)
    \/ \E n \in ModulusInputs : FromN(n)
    \/ EkEncryptWith(PlaintextInputs, NonceInputs)
    \/ DkEncryptWith(PlaintextInputs, NonceInputs)
    \/ EkEncryptWithRandom(PlaintextInputs)
    \/ DkEncryptWithRandom(PlaintextInputs)
    \/ DecryptCiphertext
    \/ DecryptAny(CiphertextInputs)

Spec == Init /\ [][Next]_vars

\* the homomorphic operations, as tests/integration.rs homorphic_ops runs them
NextHom ==
    \/ \E p, q \in SmallPrimeInputs : FromPrimes(p, q)
    \/ EkEncryptWith(SignedRange, SmallNonces)
    \/ EncryptB(SignedRange, SmallNonces)
    \/ Oadd
    \/ Osub
    \/ Oneg
    \/ \E s \in Scalars : Omul(s)
    \/ \E s \in Scalars : DkOmul(s)
    \/ DecryptOut

SpecHom == Init /\ [][NextHom]_vars

\* the homomorphic operations on operands that need not be ciphertexts
NextOps ==
    \/ \E p, q \in SmallPrimeInputs : FromPrimes(p, q)
    \/ OaddAny(CiphertextInputs, EdgeOperands)
    \/ OaddAny(EdgeOperands, CiphertextInputs)
    \/ OsubAny(CiphertextInputs, EdgeOperands)
    \/ OsubAny(EdgeOperands, CiphertextInputs)
    \/ OnegAny(CiphertextInputs)
    \/ OmulAny(Scalars, CiphertextInputs)
    \/ DkOmulAny(Scalars, CiphertextInputs)
    \/ DkOmulSame

SpecOps == Init /\ [][NextOps]_vars

\* The caller keeps the ciphertext returned by encrypt_with or by the last
\* homomorphic operation, to hand it to the next operation or to decrypt.
KeepResult ==
    /\ built = "Ok"
    /\ decrypted = NotRun
    /\ LET r == IF op = "none" THEN enc_x1 ELSE out
       IN  /\ r.ok
           /\ held' = r
    /\ x' = 0 /\ nonce' = 0 /\ enc_x1' = NotRun /\ enc_x2' = NotRun
    /\ NoB /\ NoOp
    /\ UNCHANGED <<keyVars, decVars, crtVars, genVars>>

\* EncryptionKey::encrypt_with whose result starts a sequence of operations
EncryptFirst(X, R) ==
    /\ built = "Ok"
    /\ held = NotRun /\ enc_x1 = NotRun /\ op = "none" /\ decrypted = NotRun
    /\ \E xx \in X, rr \in R :
          /\ x' = xx /\ nonce' = rr
          /\ enc_x1' = ek_encrypt_with(ek, xx, rr)
    /\ UNCHANGED <<keyVars, enc_x2, held, bVars, opVars, decVars, crtVars,
                   genVars>>

\* EncryptionKey::oadd of the kept ciphertext and a fresh
\* encrypt_with(b, nonce_b)
HeldOadd(X, R) ==
    /\ built = "Ok"
    /\ held.ok /\ op = "none" /\ decrypted = NotRun
    /\ \E xx \in X, rr \in R :
          LET eb == ek_encrypt_with(ek, xx, rr)
          IN  /\ eb.ok
              /\ b' = xx /\ nonce_b' = rr /\ enc_b' = eb
              /\ c1' = held.val /\ c2' = eb.val
              /\ out' = oadd(ek, held.val, eb.val)
    /\ op' = "oadd"
    /\ UNCHANGED <<keyVars, encVars, scalar, out2, decVars, crtVars, genVars>>

\* EncryptionKey::osub of the kept ciphertext and a fresh
\* encrypt_with(b, nonce_b)
HeldOsub(X, R) ==
    /\ built = "Ok"
    /\ held.ok /\ op = "none" /\ decrypted = NotRun
    /\ \E xx \in X, rr \in R :
          LET eb == ek_encrypt_with(ek, xx, rr)
          IN  /\ eb.ok
              /\ b' = xx /\ nonce_b' = rr /\ enc_b' = eb
              /\ c1' = held.val /\ c2' = eb.val
              /\ out' = osub(ek, held.val, eb.val)
    /\ op' = "osub"
    /\ UNCHANGED <<keyVars, encVars, scalar, out2, decVars, crtVars, genVars>>

\* EncryptionKey::oneg of the kept ciphertext
HeldOneg ==
    /\ built = "Ok"
    /\ held.ok /\ op = "none" /\ decrypted = NotRun
    /\ op' = "oneg"
    /\ c1' = held.val /\ c2' = 0
    /\ out' = oneg(ek, held.val)
    /\ UNCHANGED <<keyVars, encVars, bVars, scalar, out2, decVars, crtVars,
                   genVars>>

\* EncryptionKey::omul of a scalar and the kept ciphertext
HeldOmul(S) ==
    /\ built = "Ok"
    /\ held.ok /\ op = "none" /\ decrypted = NotRun
    /\ op' = "omul"
    /\ \E s \in S :
          /\ scalar' = s
          /\ c1' = held.val /\ c2' = 0
          /\ out' = ek_omul(ek, s, held.val)
    /\ UNCHANGED <<keyVars, encVars, bVars, out2, decVars, crtVars, genVars>>

\* DecryptionKey::decrypt of the kept ciphertext
DecryptHeld ==
    /\ built = "Ok"
    /\ held.ok /\ op = "none" /\ decrypted = NotRun
    /\ c' = held.val
    /\ decrypted' = decrypt(dk, held.val)
    /\ UNCHANGED <<keyVars, encVars, bVars, opVars, crtVars, genVars>>

\* sequences of homomorphic operations, each on the result of the one before,
\* and decrypt of what they return; decrypt of any integer
NextChain ==
    \/ \E p, q \in SmallPrimeInputs : FromPrimes(p, q)
    \/ EncryptFirst(SignedRange, SmallNonces)
    \/ KeepResult
    \/ HeldOadd(SignedRange, SmallNonces)
    \/ HeldOsub(SignedRange, SmallNonces)
    \/ HeldOneg
    \/ HeldOmul(Scalars)
    \/ DecryptHeld
    \/ DecryptAny(CiphertextInputs)

SpecChain == Init /\ [][NextChain]_vars

\* the CRT exponentiator alone, as factorized_exp_mod_n / _nn run it
NextCrt ==
    \/ \E p, q \in SmallPrimeInputs : BuildN(p, q)
    \/ \E p, q \in SmallPrimeInputs : BuildNN(p, q)
    \/ \E ee \in Exponents : PrepareExponent(ee)
    \/ \E xx \in 0..(crt.n - 1) : Exp(xx)

SpecCrt == Init /\ [][NextCrt]_vars

\* the generation of safe primes, called with bits in B
GenNext(B) ==
    \/ \E nbits \in B : GenerateSafePrime(nbits)
    \/ \E nbits \in B, amt \in AmountInputs :
          SieveGenerateSafePrimes(nbits, amt)
    \/ Trial(RandomBits)
    \/ TrialUnderflow

NextGen == GenNext(BitsInputs)

SpecGen == Init /\ [][NextGen]_vars

NextGenFair == GenNext(0..MaxFairBits)

\* a trial after which the loop returns
ReturningTrial == Trial(RandomBits) /\ gen_pc' = "returned"

\* the loop keeps running, and the random number generator is fair: a draw
\* that makes the loop return, and that stays possible, is eventually made
SpecGenFair ==
    /\ Init /\ [][NextGenFair]_vars
    /\ WF_vars(Trial(RandomBits)) /\ WF_vars(ReturningTrial)

(***************************************************************************)
(* Mathematical notions the properties are stated with.                    *)
(***************************************************************************)
IsPrime(n) == n >= 2 /\ \A d \in 2..(n - 1) : n % d # 0
Coprime(a, m) == ~ \E d \in 2..Abs(m) : a % d = 0 /\ m % d = 0
\* Z*_m: the integers of [1, m) coprime to m
InZStar(r, m) == 1 <= r /\ r < m /\ Coprime(r, m)
\* the signed range [-floor(N/2), floor(N/2)]
InSigned(v, n) == -(n \div 2) <= v /\ v <= n \div 2
\* v mod N mapped to the signed range
SignedMod(v, n) == LET u == v % n IN IF 2 * u >= n THEN u - n ELSE u
\* the key was accepted by from_primes for distinct odd primes
ValidKey ==
    /\ built = "Ok"
    /\ IsPrime(dk.p) /\ IsPrime(dk.q) /\ dk.p # dk.q
    /\ dk.p % 2 = 1 /\ dk.q % 2 = 1
\* the arguments of the last encrypt_with are a plaintext and a nonce
ValidInputs == InSigned(x, ek.n) /\ InZStar(nonce, ek.n)
ValidInputsB == InSigned(b, ek.n) /\ InZStar(nonce_b, ek.n)

(***************************************************************************)
(* Properties.                                                             *)
(***************************************************************************)
\* C1: round trip.  Under a key from_primes accepted for distinct odd
\* primes, encrypt_with of the EncryptionKey on a plaintext of the signed
\* range and a nonce of Z*_N succeeds, and decrypt of its ciphertext
\* returns Ok of that plaintext.
C1_RoundTrip ==
    (ValidKey /\ ValidInputs /\ enc_x1 # NotRun)
        => /\ enc_x1.ok
           /\ (decrypted # NotRun /\ op = "none" /\ c = enc_x1.val)
                 => decrypted = Ok(x)

\* C1 witness: the lower corner -floor(N/2) of N = 77 went through
\* encrypt_with and decrypt and came back.
C1_Witness ==
    /\ ValidKey /\ ValidInputs /\ ek.n = 77 /\ nonce > 1
    /\ x = -38 /\ enc_x1.ok /\ c = enc_x1.val /\ decrypted = Ok(-38)

\* C2: encryption path equivalence.  On a plaintext of the signed range
\* and a nonce of Z*_N, DecryptionKey::encrypt_with returns exactly the
\* ciphertext EncryptionKey::encrypt_with returns.
C2_PathEquivalence ==
    (ValidKey /\ ValidInputs /\ enc_x1 # NotRun /\ enc_x2 # NotRun)
        => enc_x1.ok /\ enc_x2 = enc_x1

\* C2 witness: both paths encrypted a negative plaintext under N = 77.
C2_Witness ==
    /\ ValidKey /\ ValidInputs /\ ek.n = 77 /\ x < 0 /\ nonce > 1
    /\ enc_x1.ok /\ enc_x2.ok /\ enc_x2.val = enc_x1.val

\* C3: CRT equivalence.  For a CrtExp built by build_n or build_nn from
\* distinct primes, every x of [0, n), coprime to n or not, and every e for
\* which x^e mod n is defined, exp(x, prepare_exponent(e)) is x^e mod n.
C3_CrtEquivalence ==
    (/\ crt_pc = "done"
     /\ \E p, q \in SmallPrimeInputs :
           /\ IsPrime(p) /\ IsPrime(q) /\ p # q
           /\ crt \in {build_n(p, q).crt, build_nn(p, q).crt}
     /\ PowMod(crt_x, e, crt.n).ok)
        => actual = PowMod(crt_x, e, crt.n)

\* C4: homomorphic addition.  decrypt(oadd(Enc(x), Enc(b))) is (x + b) mod N
\* mapped to the signed range.
C4_HomAdd ==
    (ValidKey /\ ValidInputs /\ ValidInputsB /\ op = "oadd")
        => /\ out.ok
           /\ decrypted # NotRun => decrypted = Ok(SignedMod(x + b, ek.n))

\* C4 witness: floor(N/2) + 1 wrapped to -floor(N/2) under N = 35.
C4_Witness ==
    /\ ValidKey /\ ek.n = 35 /\ op = "oadd" /\ nonce > 1 /\ nonce_b > 1
    /\ x = 17 /\ b = 1 /\ decrypted = Ok(-17)

\* C5: homomorphic subtraction.  decrypt(osub(Enc(x), Enc(b))) is
\* (x - b) mod N mapped to the signed range.
C5_HomSub ==
    (ValidKey /\ ValidInputs /\ ValidInputsB /\ op = "osub")
        => /\ out.ok
           /\ decrypted # NotRun => decrypted = Ok(SignedMod(x - b, ek.n))

\* C5 witness: -17 - 1 wrapped to 17 under N = 35.
C5_Witness ==
    /\ ValidKey /\ ek.n = 35 /\ op = "osub" /\ nonce > 1 /\ nonce_b > 1
    /\ x = -17 /\ b = 1 /\ decrypted = Ok(17)

\* C6: homomorphic negation.  decrypt(oneg(Enc(x))) is (-x) mod N mapped to
\* the signed range.
C6_HomNeg ==
    (ValidKey /\ ValidInputs /\ op = "oneg")
        => /\ out.ok
           /\ decrypted # NotRun => decrypted = Ok(SignedMod(-x, ek.n))

\* C6 witness: Enc(12) was negated and decrypted to -12 under N = 35.
C6_Witness ==
    /\ ValidKey /\ ek.n = 35 /\ op = "oneg" /\ nonce > 1
    /\ x = 12 /\ decrypted = Ok(-12)

\* C7: homomorphic scalar multiplication.  For a scalar a with
\* gcd(|a|, N) = 1, positive or negative, omul(a, Enc(x)) succeeds and
\* decrypts to (a * x) mod N mapped to the signed range.
C7_HomMul ==
    (/\ ValidKey /\ ValidInputs /\ op = "omul"
     /\ Coprime(Abs(scalar), ek.n))
        => /\ out.ok
           /\ decrypted # NotRun => decrypted = Ok(SignedMod(scalar * x, ek.n))

\* C7 witness: omul(-1, Enc(x)) decrypted to -x, and a product that wraps.
C7_Witness ==
    /\ ValidKey /\ ek.n = 35 /\ op = "omul" /\ nonce > 1
    /\ scalar = -1 /\ x = 9 /\ decrypted = Ok(-9)

\* C8: signed-range rejection.  For every key, encrypt_with of either key
\* and encrypt_with_random return the Encrypt error and no ciphertext when
\* the plaintext is outside [-floor(N/2), floor(N/2)], and succeed on a
\* plaintext inside it with a nonce of Z*_N.
C8_SignedRangeRejection ==
    \A r \in {enc_x1, enc_x2} :
        r # NotRun =>
            /\ ~InSigned(x, ek.n) => r = Err("Encrypt")
            /\ (InSigned(x, ek.n) /\ InZStar(nonce, ek.n)) => r.ok

\* C9: nonce rejection.  encrypt_with of either key returns the Encrypt
\* error for every nonce that is not in Z*_N: r <= 0, r >= N, or r sharing
\* a factor with N.
C9_NonceRejection ==
    \A r \in {enc_x1, enc_x2} :
        (ValidKey /\ r # NotRun /\ ~InZStar(nonce, ek.n))
            => r = Err("Encrypt")

\* C10: decrypt domain rejection.  decrypt(c) returns the Decrypt error for
\* every integer c that is not in Z*_{N^2}.
C10_DecryptRejection ==
    (ValidKey /\ decrypted # NotRun /\ ~InZStar(c, ek.nn))
        => decrypted = Err("Decrypt")

\* C11: rejection of operands that are no ciphertexts.  Under a key
\* from_primes accepted for distinct odd primes, each of oadd, osub, omul
\* and oneg returns an Ops error when one of its ciphertext operands is not
\* in Z*_{N^2}: not in [1, N^2) or not coprime to N^2.  This covers a
\* negative operand of oneg and a negative second operand of osub.
C11_OperandRejection ==
    /\ (ValidKey /\ op \in {"oadd", "osub"}
            /\ ~(InZStar(c1, ek.nn) /\ InZStar(c2, ek.nn)))
          => out = Err("Ops")
    /\ (ValidKey /\ op \in {"oneg", "omul", "dk_omul"}
            /\ ~InZStar(c1, ek.nn))
          => out = Err("Ops")

\* C12: scalar domain of omul.  Under a key from_primes accepted for
\* distinct odd primes and on a ciphertext of Z*_{N^2}, EncryptionKey::omul
\* and DecryptionKey::omul succeed exactly for the scalars a with
\* gcd(|a|, N) = 1: a = 0 and every non-zero multiple of p or q get an Ops
\* error, and no scalar coprime to N, of either sign, is rejected.
C12_ScalarDomain ==
    (ValidKey /\ op \in {"omul", "dk_omul"} /\ InZStar(c1, ek.nn))
        => IF Coprime(Abs(scalar), ek.n) THEN out.ok ELSE out = Err("Ops")

\* C12 witness: DecryptionKey::omul accepted a negative scalar coprime to
\* N = 35 on a ciphertext of Z*_{N^2}.
C12_Witness ==
    /\ ValidKey /\ ek.n = 35 /\ op = "dk_omul" /\ InZStar(c1, ek.nn)
    /\ c1 > 1 /\ scalar = -8 /\ out.ok

\* from_primes was called, with arguments arg_p and arg_q
FromPrimesCalled == built \in {"Ok", "InvalidPQ", "BuildFastExp"}

\* C13: equal primes.  For every integer p, from_primes(p, p) returns the
\* error InvalidPQ and constructs no key, whatever the later derivations
\* (lambda, mu, the CRT exponentiator) would have answered.
C13_EqualPrimes ==
    (FromPrimesCalled /\ arg_p = arg_q)
        => built = "InvalidPQ" /\ dk = NoKey /\ ek = from_n(0)

\* C13 witness: from_primes(3, 3), whose lambda = 2 is invertible modulo
\* N = 9, was rejected with InvalidPQ.
C13_Witness ==
    /\ arg_p = 3 /\ arg_q = 3 /\ built = "InvalidPQ" /\ dk = NoKey
    /\ Invert(Lcm(2, 2), 9).ok

\* C14 as stated: from_primes(3, 5) is rejected with InvalidPQ.
C14_Rejects3And5 ==
    (FromPrimesCalled /\ arg_p = 3 /\ arg_q = 5) => built = "InvalidPQ"

\* C14: from_primes(3, 5) is accepted, because the inverse
\* mu = lambda^-1 mod N exists for it: lambda = lcm(2, 4) = 4 and
\* mu = 4, as 4 * 4 = 16 = 1 mod 15.  A pair of distinct primes is
\* rejected with InvalidPQ exactly when lambda has no inverse modulo N,
\* as for (3, 7), where lambda = 6 and N = 21 share the factor 3.
C14_InverseDecides ==
    /\ (FromPrimesCalled /\ arg_p = 3 /\ arg_q = 5)
          => /\ built = "Ok"
             /\ dk.lambda = 4 /\ dk.mu = 4 /\ ek.n = 15
             /\ (dk.lambda * dk.mu) % ek.n = 1
    /\ (FromPrimesCalled /\ IsPrime(arg_p) /\ IsPrime(arg_q)
            /\ arg_p # arg_q)
          => (built = "InvalidPQ"
                <=> ~Coprime((arg_p - 1) * (arg_q - 1), arg_p * arg_q))

\* C14 witness: from_primes(3, 5) returned a key with lambda = mu = 4.
C14_Witness ==
    /\ arg_p = 3 /\ arg_q = 5 /\ built = "Ok"
    /\ dk.p = 3 /\ dk.q = 5 /\ dk.lambda = 4 /\ dk.mu = 4

\* C17 as stated: the plaintext decrypt returns is in the half-open range
\* -floor(N/2) <= m < floor(N/2).
C17_HalfOpenRange ==
    (ValidKey /\ decrypted.ok)
        => -(ek.n \div 2) <= decrypted.val /\ decrypted.val < ek.n \div 2

\* C17: under a key from_primes accepted for distinct odd primes, the
\* plaintext m decrypt returns for a ciphertext c is in the closed range
\* -floor(N/2) <= m <= floor(N/2), the upper end included: with
\* m' = (L(c^lambda mod N^2) * mu) mod N in [0, N), m is m' - N when
\* 2m' >= N and m' otherwise.
C17_ClosedRange ==
    (ValidKey /\ decrypted.ok)
        => LET u  == PowModNat(c, dk.lambda, ek.nn)
               mp == (((u - 1) \div ek.n) * dk.mu) % ek.n
           IN  /\ 0 <= mp /\ mp < ek.n
               /\ decrypted.val = IF 2 * mp >= ek.n THEN mp - ek.n ELSE mp
               /\ -(ek.n \div 2) <= decrypted.val
               /\ decrypted.val <= ek.n \div 2

\* C17 witness: under N = 77 decrypt returned floor(N/2) = 38, the upper
\* end of the range.
C17_Witness ==
    /\ ValidKey /\ ek.n = 77 /\ InZStar(c, ek.nn)
    /\ decrypted = Ok(38) /\ 38 = ek.n \div 2

\* C18: the CRT exponentiation agrees with pow_mod on coprime inputs.  For
\* a CrtExp built by build_nn from distinct primes p and q, every x of
\* [0, (pq)^2) with gcd(x, pq) = 1 and every exponent e, negative ones
\* included, exp(x, prepare_exponent(e)) returns Some(y) where y is the
\* signed modular power x^e mod (pq)^2, and 0 <= y < (pq)^2.
C18_CrtOnCoprime ==
    (/\ crt_pc = "done"
     /\ 0 <= crt_x /\ crt_x < crt.n
     /\ \E p, q \in SmallPrimeInputs :
           /\ p * p = crt.n1 /\ q * q = crt.n2
           /\ IsPrime(p) /\ IsPrime(q) /\ p # q
           /\ crt = build_nn(p, q).crt
           /\ Coprime(crt_x, p * q))
        => /\ actual.ok
           /\ actual = PowMod(crt_x, e, crt.n)
           /\ 0 <= actual.val /\ actual.val < crt.n

\* C18 witness: build_nn(5, 7) raised 2 to the power -13, an exponent
\* beyond phi(9) and negative, and returned the inverse of 2^13 modulo 1225.
C18_Witness ==
    /\ crt_pc = "done" /\ crt = build_nn(5, 7).crt /\ crt.n = 1225
    /\ crt_x = 2 /\ e = -13 /\ actual.ok
    /\ (actual.val * PowModNat(2, 13, 1225)) % 1225 = 1

\* q is a safe prime whose (q - 1)/2 is odd
IsSafePrime(q) ==
    IsPrime(q) /\ IsPrime((q - 1) \div 2) /\ ((q - 1) \div 2) % 2 = 1
\* q has exactly n bits
HasBits(q, n) == 2 ^ (n - 1) <= q /\ q < 2 ^ n

\* C15: length of the safe primes.  Every q that generate_safe_prime or
\* sieve_generate_safe_primes, with any sieve size, returns for bits has
\* exactly bits bits and is odd; q and (q - 1)/2 are prime; and (q - 1)/2
\* is the candidate of the last trial, an odd number below 2^(bits - 1)
\* with bit bits - 2 set.
C15_SafePrimeLength ==
    gen_pc = "returned"
        => /\ HasBits(gen_ret, bits)
           /\ gen_ret % 2 = 1
           /\ IsPrime(gen_ret) /\ IsPrime((gen_ret - 1) \div 2)
           /\ (gen_ret - 1) \div 2 = gx
           /\ gx % 2 = 1 /\ gx < 2 ^ (bits - 1)
           /\ (gx \div 2 ^ (bits - 2)) % 2 = 1

\* C15 witness: generate_safe_prime, with its sieve of 135 small primes,
\* returned the 10-bit safe prime 839 = 2 * 419 + 1.
C15_Witness ==
    /\ gen_pc = "returned" /\ bits = 10 /\ amount = DefaultAmount
    /\ gx = 419 /\ gen_ret = 839

\* C19: soundness of the sieve.  Whenever the sieve rejects a candidate
\* p', q = 2p' + 1 is not prime, so that no candidate whose q is a safe
\* prime is discarded, for any bit length.
C19_SieveSound ==
    (gen_pc = "loop" /\ last = "sieve") => ~IsPrime(2 * gx + 1)

\* there is a safe prime of exactly bits bits with odd (q - 1)/2
SafePrimeExists ==
    bits >= 2 /\ \E q \in (2 ^ (bits - 1))..(2 ^ bits - 1) : IsSafePrime(q)

\* C20: termination.  For every bits for which a safe prime of exactly
\* bits bits with odd (q - 1)/2 exists, and under a fair random number
\* generator, the loop of generate_safe_prime eventually returns.
C20_Termination ==
    (gen_pc = "loop" /\ SafePrimeExists) ~> (gen_pc = "returned")

\* C16: no panic on the public paths.  For all integer arguments, N = 0
\* and negative N of from_n, arbitrary p and q of from_primes and any
\* bits >= 0 of generate_safe_prime included, every public operation
\* returns a value, an error or None: none ends in a panic (a division by
\* zero, an integer underflow, a failed unwrap).
C16_NoPanic ==
    /\ enc_x1 # Panic /\ enc_x2 # Panic /\ enc_b # Panic
    /\ out # Panic /\ decrypted # Panic /\ actual # Panic
    /\ gen_pc # "panic"

\* C21: the fast omul equals the public omul.  Under a key from_primes
\* accepted for distinct odd primes, for every scalar and every integer
\* handed over as ciphertext, DecryptionKey::omul returns what
\* EncryptionKey::omul returns: the same ciphertext when they succeed, and
\* the Ops error in exactly the same cases.
C21_OmulEquivalence ==
    (ValidKey /\ op = "omul" /\ out2 # NotRun) => out2 = out

\* C21 witness: under N = 35 both omul raised a ciphertext of Z*_{N^2} to
\* the scalar -8 and returned the same ciphertext.
C21_Witness ==
    /\ ValidKey /\ ek.n = 35 /\ op = "omul" /\ scalar = -8
    /\ InZStar(c1, ek.nn) /\ c1 > 1 /\ out.ok /\ out.val > 1
    /\ out2 = out

\* c is an element of Z*_{N^2}: 0 < c < N^2 and, N being the product of the
\* primes p and q, neither of them divides c
InZStarNN(v) ==
    /\ 0 < v /\ v < ek.n * ek.n
    /\ v % dk.p # 0 /\ v % dk.q # 0

\* C22: closure under sequences of operations.  Under a key from_primes
\* accepted for distinct odd primes: encrypt_with on a plaintext of the
\* signed range and a nonce of Z*_N returns an element of Z*_{N^2}; the
\* ciphertext kept from a sequence of oadd, osub, oneg and omul that started
\* there is an element of Z*_{N^2}; oadd and osub of it with a fresh
\* ciphertext, oneg of it, and omul of it by a scalar coprime to N are
\* accepted and return an element of Z*_{N^2}; and decrypt returns Ok on
\* every element of Z*_{N^2}.
C22_Closure ==
    ValidKey =>
        /\ (enc_x1 # NotRun /\ ValidInputs)
              => (enc_x1.ok /\ InZStarNN(enc_x1.val))
        /\ held.ok => InZStarNN(held.val)
        /\ (held.ok /\ op \in {"oadd", "osub"} /\ ValidInputsB)
              => (out.ok /\ InZStarNN(out.val))
        /\ (held.ok /\ op = "oneg") => (out.ok /\ InZStarNN(out.val))
        /\ (held.ok /\ op = "omul" /\ Coprime(scalar, ek.n))
              => (out.ok /\ InZStarNN(out.val))
        /\ (decrypted # NotRun /\ InZStarNN(c)) => decrypted.ok

\* C22 witness: under N = 35 the kept ciphertext 947, the oneg of
\* encrypt_with(3, 2) = 683 and no output of encrypt_with on the nonces
\* tried, was decrypted to -3.
C22_Witness ==
    /\ ValidKey /\ ek.n = 35
    /\ held = Ok(947)
    /\ c = 947 /\ decrypted = Ok(-3)
====
